---- MODULE Spec2Model ----
(***************************************************************************)
(* Enrollment validation (edx/analytics/tasks/enrollment_validation.py):   *)
(* the reducer of CourseEnrollmentValidationTask.  For one (course, user)  *)
(* key, ValidateEnrollmentForEvents sorts the key's events newest first,   *)
(* appends a sentinel, and missing_enrolled() walks the adjacent pairs     *)
(* through check_transition(), collecting the events that must have        *)
(* happened but were not recorded.                                         *)
(*                                                                         *)
(* Representation.  An ISO timestamp string "YYYY-MM-DDTHH:MM:SS.ffffff"   *)
(* is the record [day, sec, frac]: day is the ordinal of the date part,    *)
(* sec the second of the day, frac the six-digit fraction; a part that the *)
(* string does not have is -1 (frac = -1: no ".ffffff"; sec = -1: a bare   *)
(* date string such as lower_bound_date_string).  Python's None is the     *)
(* record whose three parts are -1.  With this encoding the string order   *)
(* Python 2 uses (a prefix sorts first, None sorts before every string) is *)
(* the lexicographic order of (day, sec, frac).                            *)
(***************************************************************************)
EXTENDS Integers, Sequences, FiniteSets, TLC

\* ------------------------------------------------------------------------
\* Event types (enrollment_validation.py:21-24)
DEACTIVATED == "edx.course.enrollment.deactivated"
ACTIVATED == "edx.course.enrollment.activated"
VALIDATED == "edx.course.enrollment.validated"
SENTINEL == "edx.course.enrollment.sentinel"

\* Variant: Activated compares above Deactivated.
EventTypeOrder_ActivatedAbove(t) ==
    CASE t = DEACTIVATED -> 1
      [] t = ACTIVATED -> 2
      [] t = VALIDATED -> 3
      [] t = SENTINEL -> 0

\* Position of an event type in the order of its string value:
\* "...activated" < "...deactivated" < "...sentinel" < "...validated".
EventTypeOrder(t) ==
    CASE t = ACTIVATED -> 0
      [] t = DEACTIVATED -> 1
      [] t = SENTINEL -> 2
      [] t = VALIDATED -> 3

\* ------------------------------------------------------------------------
\* Timestamps
MicrosPerSecond == 1000000
SecondsPerDay == 86400

None == [day |-> -1, sec |-> -1, frac |-> -1]
Ts(d, s, f) == [day |-> d, sec |-> s, frac |-> f]
DateString(d) == [day |-> d, sec |-> -1, frac |-> -1]

\* Python truthiness of a timestamp-or-None value ("if after:").
Truthy(x) == x # None

\* a < b on strings (None below every string).
StrLess(a, b) ==
    \/ a.day < b.day
    \/ a.day = b.day /\ a.sec < b.sec
    \/ a.day = b.day /\ a.sec = b.sec /\ a.frac < b.frac

\* strptime, + timedelta(microseconds), isoformat (padded to six fractional
\* digits when datetime prints none): calendar arithmetic with carry.
DatetimeAdd(timestamp, microseconds) ==
    LET micro == (IF timestamp.frac < 0 THEN 0 ELSE timestamp.frac) + microseconds
        second == timestamp.sec + (micro \div MicrosPerSecond)
    IN  Ts(timestamp.day + (second \div SecondsPerDay),
           second % SecondsPerDay,
           micro % MicrosPerSecond)

\* Variant: the fraction is always rewritten in place, without carry.
AddMicroseconds_InPlace(timestamp, microseconds) ==
    LET microsec_base == IF timestamp.frac < 0 THEN 0 ELSE timestamp.frac
        microsec_int == microsec_base + microseconds
    IN  Ts(timestamp.day, timestamp.sec, microsec_int % MicrosPerSecond)

\* _add_microseconds: the fast path rewrites the fraction in place, a carry
\* goes through datetime.
AddMicroseconds(timestamp, microseconds) ==
    LET microsec_base == IF timestamp.frac < 0 THEN 0 ELSE timestamp.frac
        microsec_int == microsec_base + microseconds
    IN  IF microsec_int >= 0 /\ microsec_int < MicrosPerSecond
        THEN Ts(timestamp.day, timestamp.sec, microsec_int)
        ELSE DatetimeAdd(timestamp, microseconds)

\* Variant: prefers `before` when both ends are known.
GetFakeTimestamp_PrefersBefore(after, before) ==
    IF Truthy(before) THEN AddMicroseconds(before, -1) ELSE AddMicroseconds(after, 1)

\* _get_fake_timestamp: a microsecond after `after`, else one before `before`.
GetFakeTimestamp(after, before) ==
    IF Truthy(after) THEN AddMicroseconds(after, 1) ELSE AddMicroseconds(before, -1)

\* eventlog.timestamp_to_datestamp: the date portion of the timestamp.
TimestampToDatestamp(timestamp) == DateString(timestamp.day)

\* ------------------------------------------------------------------------
\* Events
EnrollmentEvent(timestamp, event_type, is_active, created) ==
    [timestamp |-> timestamp, event_type |-> event_type,
     is_active |-> is_active, created |-> created]

\* Python values of is_active: None < False < True.
IsActiveOrder(v) == CASE v = "None" -> 0 [] v = "False" -> 1 [] v = "True" -> 2
IsTrue(v) == v = "True"

\* The marker appended by __init__.
InitialState == EnrollmentEvent(None, SENTINEL, "False", None)

\* Variant: the values are compared by timestamp only.
TupleLess_TimestampOnly(a, b) == StrLess(a.timestamp, b.timestamp)

\* Tuple comparison of two input values (timestamp, event_type, is_active, created).
TupleLess(a, b) ==
    \/ StrLess(a.timestamp, b.timestamp)
    \/ /\ a.timestamp = b.timestamp
       /\ \/ EventTypeOrder(a.event_type) < EventTypeOrder(b.event_type)
          \/ /\ a.event_type = b.event_type
             /\ \/ IsActiveOrder(a.is_active) < IsActiveOrder(b.is_active)
                \/ /\ a.is_active = b.is_active
                   /\ StrLess(a.created, b.created)

\* sorted(events, reverse=True): insertion into a descending list.
RECURSIVE InsertDescending(_, _)
InsertDescending(e, s) ==
    IF s = << >> THEN <<e>>
    ELSE IF TupleLess(Head(s), e) THEN <<e>> \o s
    ELSE <<Head(s)>> \o InsertDescending(e, Tail(s))

RECURSIVE SortedReverse(_)
SortedReverse(events) ==
    IF events = << >> THEN << >>
    ELSE InsertDescending(Head(events), SortedReverse(Tail(events)))

\* __init__: the events newest first, then the sentinel.
SortedEvents(events) == SortedReverse(events) \o <<InitialState>>

\* ------------------------------------------------------------------------
\* Output
STATE_MAP(event_type) ==
    CASE event_type = VALIDATED -> "validate"
      [] event_type = ACTIVATED -> "activate"
      [] event_type = DEACTIVATED -> "deactivate"
      [] event_type = SENTINEL -> "start"
      [] OTHER -> "unknown"

GetStateString(event) ==
    IF event.event_type = VALIDATED
    THEN STATE_MAP(event.event_type) \o (IF IsTrue(event.is_active) THEN "(active)" ELSE "(inactive)")
    ELSE STATE_MAP(event.event_type)

GetTransitionString(prev_event, curr_event) ==
    GetStateString(prev_event) \o " => " \o GetStateString(curr_event)

\* A field a document leaves out.
Omitted == [day |-> -2, sec |-> -2, frac |-> -2]

\* create_tuple: (datestamp, (course_id, user_id, timestamp, event_type, reason, after, before)).
CreateTuple(timestamp, event_type, reason, after, before) ==
    [datestamp |-> TimestampToDatestamp(timestamp), encoding |-> "tuple",
     timestamp |-> timestamp, event_type |-> event_type, reason |-> reason,
     after |-> after, before |-> before]

\* Variant: the document carries after_time and before_time even when unset.
SyntheticEvent_BoundsAlways(timestamp, event_type, reason, after, before) ==
    [datestamp |-> TimestampToDatestamp(timestamp), encoding |-> "event",
     timestamp |-> timestamp, event_type |-> event_type, reason |-> reason,
     after |-> after, before |-> before]

\* synthetic_event: the document, with after_time/before_time only when set.
SyntheticEvent(timestamp, event_type, reason, after, before) ==
    [datestamp |-> TimestampToDatestamp(timestamp), encoding |-> "event",
     timestamp |-> timestamp, event_type |-> event_type, reason |-> reason,
     after |-> IF Truthy(after) THEN after ELSE Omitted,
     before |-> IF Truthy(before) THEN before ELSE Omitted]

GenerateOutput(event_output, timestamp, event_type, reason, after, before) ==
    IF event_output
    THEN SyntheticEvent(timestamp, event_type, reason, after, before)
    ELSE CreateTuple(timestamp, event_type, reason, after, before)

\* ------------------------------------------------------------------------
\* check_transition(prev_event, curr_event), with self.creation_timestamp and
\* the options passed explicitly.

\* Variant: the created of the first validation scanned is kept.
CreationTimestampAfter_KeepFirst(curr_event, creation_timestamp) ==
    IF curr_event.event_type = VALIDATED /\ ~Truthy(creation_timestamp)
    THEN curr_event.created ELSE creation_timestamp

\* self.creation_timestamp after the call: a validation overwrites it.
CreationTimestampAfter(curr_event, creation_timestamp) ==
    IF curr_event.event_type = VALIDATED THEN curr_event.created ELSE creation_timestamp

\* What the call logs: a validation whose created differs from the one seen before.
CheckTransitionLog(curr_event, creation_timestamp) ==
    IF /\ curr_event.event_type = VALIDATED
       /\ Truthy(creation_timestamp)
       /\ curr_event.created # creation_timestamp
    THEN <<"Encountered validation with different creation timestamp">>
    ELSE << >>

\* generate_output with the reason of the pair, as every branch calls it.
Emit(event_output, prev_event, curr_event, timestamp, event_type, after, before) ==
    GenerateOutput(event_output, timestamp, event_type,
                   GetTransitionString(prev_event, curr_event), after, before)

\* Variant: the timestamp of the older event of the pair, without offset.
PairTimestamp_NoOffset(prev_event, curr_event) == prev_event.timestamp

\* timestamp = self._get_fake_timestamp(prev, curr)
PairTimestamp(prev_event, curr_event) ==
    GetFakeTimestamp(prev_event.timestamp, curr_event.timestamp)

\* Variant: the Activated event is placed by _get_fake_timestamp, like the
\* interior repairs, instead of at creation_timestamp.
ValidatedAfterSentinel_FakeActivated(prev_event, curr_event, self_creation_timestamp, event_output, generate_before, lower_bound_date_string) ==
    LET curr == curr_event.timestamp
        timestamp2 == GetFakeTimestamp(self_creation_timestamp, curr)
    IN  IF ~generate_before /\ StrLess(self_creation_timestamp, lower_bound_date_string)
        THEN << >>
        ELSE IF IsTrue(curr_event.is_active)
        THEN <<Emit(event_output, prev_event, curr_event,
                    timestamp2, ACTIVATED, self_creation_timestamp, curr)>>
        ELSE <<Emit(event_output, prev_event, curr_event,
                    self_creation_timestamp, ACTIVATED, self_creation_timestamp, curr),
               Emit(event_output, prev_event, curr_event,
                    timestamp2, DEACTIVATED, self_creation_timestamp, curr)>>

\* Variant: the Deactivated event of the double gap is placed a microsecond
\* before the validation instead of a microsecond after creation_timestamp.
ValidatedAfterSentinel_LateDeactivated(prev_event, curr_event, self_creation_timestamp, event_output, generate_before, lower_bound_date_string) ==
    LET curr == curr_event.timestamp
    IN  IF ~generate_before /\ StrLess(self_creation_timestamp, lower_bound_date_string)
        THEN << >>
        ELSE IF IsTrue(curr_event.is_active)
        THEN <<Emit(event_output, prev_event, curr_event,
                    self_creation_timestamp, ACTIVATED, self_creation_timestamp, curr)>>
        ELSE LET timestamp2 == GetFakeTimestamp(None, curr)
             IN  <<Emit(event_output, prev_event, curr_event,
                        self_creation_timestamp, ACTIVATED, self_creation_timestamp, curr),
                   Emit(event_output, prev_event, curr_event,
                        timestamp2, DEACTIVATED, self_creation_timestamp, curr)>>

\* Variant: the suppression test looks at is_active first, so an inactive
\* validation out of the window is not suppressed.
ValidatedAfterSentinel_SuppressActiveOnly(prev_event, curr_event, self_creation_timestamp, event_output, generate_before, lower_bound_date_string) ==
    LET curr == curr_event.timestamp
    IN  IF IsTrue(curr_event.is_active)
        THEN IF ~generate_before /\ StrLess(self_creation_timestamp, lower_bound_date_string)
             THEN << >>
             ELSE <<Emit(event_output, prev_event, curr_event,
                         self_creation_timestamp, ACTIVATED, self_creation_timestamp, curr)>>
        ELSE LET timestamp2 == GetFakeTimestamp(self_creation_timestamp, curr)
             IN  <<Emit(event_output, prev_event, curr_event,
                        self_creation_timestamp, ACTIVATED, self_creation_timestamp, curr),
                   Emit(event_output, prev_event, curr_event,
                        timestamp2, DEACTIVATED, self_creation_timestamp, curr)>>

\* curr is VALIDATED, prev is the SENTINEL; self_creation_timestamp is already
\* curr's created.
ValidatedAfterSentinel(prev_event, curr_event, self_creation_timestamp, event_output, generate_before, lower_bound_date_string) ==
    LET curr == curr_event.timestamp
    IN  IF ~generate_before /\ StrLess(self_creation_timestamp, lower_bound_date_string)
        THEN << >>
        ELSE IF IsTrue(curr_event.is_active)
        THEN <<Emit(event_output, prev_event, curr_event,
                    self_creation_timestamp, ACTIVATED, self_creation_timestamp, curr)>>
        ELSE LET timestamp2 == GetFakeTimestamp(self_creation_timestamp, curr)
             IN  <<Emit(event_output, prev_event, curr_event,
                        self_creation_timestamp, ACTIVATED, self_creation_timestamp, curr),
                   Emit(event_output, prev_event, curr_event,
                        timestamp2, DEACTIVATED, self_creation_timestamp, curr)>>

\* Variant: the DEACTIVATED branch tests "not curr_event.is_active", as the
\* ACTIVATED branch does.
CheckValidated_DeactivatedTestsInactive(prev_event, curr_event, self_creation_timestamp, event_output, generate_before, lower_bound_date_string) ==
    LET prev_type == prev_event.event_type
        prev == prev_event.timestamp
        curr == curr_event.timestamp
        timestamp == PairTimestamp(prev_event, curr_event)
    IN  IF prev_type = VALIDATED THEN
            IF IsTrue(curr_event.is_active) /\ ~IsTrue(prev_event.is_active)
            THEN <<Emit(event_output, prev_event, curr_event, timestamp, ACTIVATED, prev, curr)>>
            ELSE IF ~IsTrue(curr_event.is_active) /\ IsTrue(prev_event.is_active)
            THEN <<Emit(event_output, prev_event, curr_event, timestamp, DEACTIVATED, prev, curr)>>
            ELSE << >>
        ELSE IF prev_type = ACTIVATED THEN
            IF ~IsTrue(curr_event.is_active)
            THEN <<Emit(event_output, prev_event, curr_event, timestamp, DEACTIVATED, prev, curr)>>
            ELSE << >>
        ELSE IF prev_type = DEACTIVATED THEN
            IF ~IsTrue(curr_event.is_active)
            THEN <<Emit(event_output, prev_event, curr_event, timestamp, ACTIVATED, prev, curr)>>
            ELSE << >>
        ELSE IF prev_type = SENTINEL
        THEN ValidatedAfterSentinel(prev_event, curr_event, self_creation_timestamp,
                                    event_output, generate_before, lower_bound_date_string)
        ELSE << >>

\* Variant: the window test of the sentinel pair is made before every pair.
CheckValidated_WindowedInterior(prev_event, curr_event, self_creation_timestamp, event_output, generate_before, lower_bound_date_string) ==
    LET prev_type == prev_event.event_type
        prev == prev_event.timestamp
        curr == curr_event.timestamp
        timestamp == PairTimestamp(prev_event, curr_event)
    IN  IF ~generate_before /\ StrLess(self_creation_timestamp, lower_bound_date_string)
        THEN << >>
        ELSE IF prev_type = VALIDATED THEN
            IF IsTrue(curr_event.is_active) /\ ~IsTrue(prev_event.is_active)
            THEN <<Emit(event_output, prev_event, curr_event, timestamp, ACTIVATED, prev, curr)>>
            ELSE IF ~IsTrue(curr_event.is_active) /\ IsTrue(prev_event.is_active)
            THEN <<Emit(event_output, prev_event, curr_event, timestamp, DEACTIVATED, prev, curr)>>
            ELSE << >>
        ELSE IF prev_type = ACTIVATED THEN
            IF ~IsTrue(curr_event.is_active)
            THEN <<Emit(event_output, prev_event, curr_event, timestamp, DEACTIVATED, prev, curr)>>
            ELSE << >>
        ELSE IF prev_type = DEACTIVATED THEN
            IF IsTrue(curr_event.is_active)
            THEN <<Emit(event_output, prev_event, curr_event, timestamp, ACTIVATED, prev, curr)>>
            ELSE << >>
        ELSE IF prev_type = SENTINEL
        THEN ValidatedAfterSentinel(prev_event, curr_event, self_creation_timestamp,
                                    event_output, generate_before, lower_bound_date_string)
        ELSE << >>

\* curr is VALIDATED.
CheckValidated(prev_event, curr_event, self_creation_timestamp, event_output, generate_before, lower_bound_date_string) ==
    LET prev_type == prev_event.event_type
        prev == prev_event.timestamp
        curr == curr_event.timestamp
        timestamp == PairTimestamp(prev_event, curr_event)
    IN  IF prev_type = VALIDATED THEN
            IF IsTrue(curr_event.is_active) /\ ~IsTrue(prev_event.is_active)
            THEN <<Emit(event_output, prev_event, curr_event, timestamp, ACTIVATED, prev, curr)>>
            ELSE IF ~IsTrue(curr_event.is_active) /\ IsTrue(prev_event.is_active)
            THEN <<Emit(event_output, prev_event, curr_event, timestamp, DEACTIVATED, prev, curr)>>
            ELSE << >>
        ELSE IF prev_type = ACTIVATED THEN
            IF ~IsTrue(curr_event.is_active)
            THEN <<Emit(event_output, prev_event, curr_event, timestamp, DEACTIVATED, prev, curr)>>
            ELSE << >>
        ELSE IF prev_type = DEACTIVATED THEN
            IF IsTrue(curr_event.is_active)
            THEN <<Emit(event_output, prev_event, curr_event, timestamp, ACTIVATED, prev, curr)>>
            ELSE << >>
        ELSE IF prev_type = SENTINEL
        THEN ValidatedAfterSentinel(prev_event, curr_event, self_creation_timestamp,
                                    event_output, generate_before, lower_bound_date_string)
        ELSE << >>

\* Variant: two activations in a row are taken for the normal case.
CheckActivated_RepeatIsNormal(prev_event, curr_event, event_output) ==
    LET prev_type == prev_event.event_type
        prev == prev_event.timestamp
        curr == curr_event.timestamp
        timestamp == PairTimestamp(prev_event, curr_event)
    IN  IF prev_type = VALIDATED THEN
            IF IsTrue(prev_event.is_active)
            THEN <<Emit(event_output, prev_event, curr_event, timestamp, DEACTIVATED, prev, curr)>>
            ELSE << >>
        ELSE << >>

\* Variant: the repair of two activations in a row is an else, so it also
\* fires after a DEACTIVATED event and after the SENTINEL.
CheckActivated_ElseRepairs(prev_event, curr_event, event_output) ==
    LET prev_type == prev_event.event_type
        prev == prev_event.timestamp
        curr == curr_event.timestamp
        timestamp == PairTimestamp(prev_event, curr_event)
    IN  IF prev_type = VALIDATED THEN
            IF IsTrue(prev_event.is_active)
            THEN <<Emit(event_output, prev_event, curr_event, timestamp, DEACTIVATED, prev, curr)>>
            ELSE << >>
        ELSE <<Emit(event_output, prev_event, curr_event, timestamp, DEACTIVATED, prev, curr)>>

\* curr is ACTIVATED.
CheckActivated(prev_event, curr_event, event_output) ==
    LET prev_type == prev_event.event_type
        prev == prev_event.timestamp
        curr == curr_event.timestamp
        timestamp == PairTimestamp(prev_event, curr_event)
    IN  IF prev_type = VALIDATED THEN
            IF IsTrue(prev_event.is_active)
            THEN <<Emit(event_output, prev_event, curr_event, timestamp, DEACTIVATED, prev, curr)>>
            ELSE << >>
        ELSE IF prev_type = ACTIVATED
        THEN <<Emit(event_output, prev_event, curr_event, timestamp, DEACTIVATED, prev, curr)>>
        ELSE << >>

\* Variant: a known creation_timestamp is used only when it is within the
\* window, whatever generate_before.
DeactivatedAfterSentinel_WindowOnly(prev_event, curr_event, self_creation_timestamp, event_output, generate_before, lower_bound_date_string) ==
    LET curr == curr_event.timestamp
    IN  IF /\ Truthy(self_creation_timestamp)
           /\ ~StrLess(self_creation_timestamp, lower_bound_date_string)
        THEN <<Emit(event_output, prev_event, curr_event,
                    self_creation_timestamp, ACTIVATED, self_creation_timestamp, curr)>>
        ELSE IF generate_before
        THEN LET timestamp2 == GetFakeTimestamp(None, curr)
             IN  <<Emit(event_output, prev_event, curr_event, timestamp2, ACTIVATED, None, curr)>>
        ELSE << >>

\* Variant: the fallback passes the Deactivated event's timestamp as `after`.
DeactivatedAfterSentinel_AfterCurr(prev_event, curr_event, self_creation_timestamp, event_output, generate_before, lower_bound_date_string) ==
    LET curr == curr_event.timestamp
    IN  IF /\ Truthy(self_creation_timestamp)
           /\ \/ generate_before
              \/ ~StrLess(self_creation_timestamp, lower_bound_date_string)
        THEN <<Emit(event_output, prev_event, curr_event,
                    self_creation_timestamp, ACTIVATED, self_creation_timestamp, curr)>>
        ELSE IF generate_before
        THEN LET timestamp2 == GetFakeTimestamp(curr, None)
             IN  <<Emit(event_output, prev_event, curr_event, timestamp2, ACTIVATED, curr, curr)>>
        ELSE << >>

\* Variant: the fallback is an else, not an elif on generate_before.
DeactivatedAfterSentinel_AlwaysFallback(prev_event, curr_event, self_creation_timestamp, event_output, generate_before, lower_bound_date_string) ==
    LET curr == curr_event.timestamp
    IN  IF /\ Truthy(self_creation_timestamp)
           /\ \/ generate_before
              \/ ~StrLess(self_creation_timestamp, lower_bound_date_string)
        THEN <<Emit(event_output, prev_event, curr_event,
                    self_creation_timestamp, ACTIVATED, self_creation_timestamp, curr)>>
        ELSE LET timestamp2 == GetFakeTimestamp(None, curr)
             IN  <<Emit(event_output, prev_event, curr_event, timestamp2, ACTIVATED, None, curr)>>

\* Variant: a known creation_timestamp is used whatever the window.
DeactivatedAfterSentinel_KnownAlways(prev_event, curr_event, self_creation_timestamp, event_output, generate_before, lower_bound_date_string) ==
    LET curr == curr_event.timestamp
    IN  IF Truthy(self_creation_timestamp)
        THEN <<Emit(event_output, prev_event, curr_event,
                    self_creation_timestamp, ACTIVATED, self_creation_timestamp, curr)>>
        ELSE IF generate_before
        THEN LET timestamp2 == GetFakeTimestamp(None, curr)
             IN  <<Emit(event_output, prev_event, curr_event, timestamp2, ACTIVATED, None, curr)>>
        ELSE << >>

\* curr is DEACTIVATED, prev is the SENTINEL.
DeactivatedAfterSentinel(prev_event, curr_event, self_creation_timestamp, event_output, generate_before, lower_bound_date_string) ==
    LET curr == curr_event.timestamp
    IN  IF /\ Truthy(self_creation_timestamp)
           /\ \/ generate_before
              \/ ~StrLess(self_creation_timestamp, lower_bound_date_string)
        THEN <<Emit(event_output, prev_event, curr_event,
                    self_creation_timestamp, ACTIVATED, self_creation_timestamp, curr)>>
        ELSE IF generate_before
        THEN LET timestamp2 == GetFakeTimestamp(None, curr)
             IN  <<Emit(event_output, prev_event, curr_event, timestamp2, ACTIVATED, None, curr)>>
        ELSE << >>

\* Variant: a Deactivated event after a Deactivated event is taken as normal.
CheckDeactivated_RepeatIsNormal(prev_event, curr_event, self_creation_timestamp, event_output, generate_before, lower_bound_date_string) ==
    LET prev_type == prev_event.event_type
        prev == prev_event.timestamp
        curr == curr_event.timestamp
        timestamp == PairTimestamp(prev_event, curr_event)
    IN  IF prev_type = VALIDATED THEN
            IF ~IsTrue(prev_event.is_active)
            THEN <<Emit(event_output, prev_event, curr_event, timestamp, ACTIVATED, prev, curr)>>
            ELSE << >>
        ELSE IF prev_type = ACTIVATED \/ prev_type = DEACTIVATED THEN << >>
        ELSE IF prev_type = SENTINEL
        THEN DeactivatedAfterSentinel(prev_event, curr_event, self_creation_timestamp,
                                      event_output, generate_before, lower_bound_date_string)
        ELSE << >>

\* curr is DEACTIVATED.
CheckDeactivated(prev_event, curr_event, self_creation_timestamp, event_output, generate_before, lower_bound_date_string) ==
    LET prev_type == prev_event.event_type
        prev == prev_event.timestamp
        curr == curr_event.timestamp
        timestamp == PairTimestamp(prev_event, curr_event)
    IN  IF prev_type = VALIDATED THEN
            IF ~IsTrue(prev_event.is_active)
            THEN <<Emit(event_output, prev_event, curr_event, timestamp, ACTIVATED, prev, curr)>>
            ELSE << >>
        ELSE IF prev_type = ACTIVATED THEN << >>
        ELSE IF prev_type = DEACTIVATED
        THEN <<Emit(event_output, prev_event, curr_event, timestamp, ACTIVATED, prev, curr)>>
        ELSE IF prev_type = SENTINEL
        THEN DeactivatedAfterSentinel(prev_event, curr_event, self_creation_timestamp,
                                      event_output, generate_before, lower_bound_date_string)
        ELSE << >>

\* The list the call returns (None is the empty list).
CheckTransition(prev_event, curr_event, creation_timestamp, event_output, generate_before, lower_bound_date_string) ==
    LET curr_type == curr_event.event_type
        self_creation_timestamp == CreationTimestampAfter(curr_event, creation_timestamp)
    IN  IF curr_type = VALIDATED
        THEN CheckValidated(prev_event, curr_event, self_creation_timestamp,
                            event_output, generate_before, lower_bound_date_string)
        ELSE IF curr_type = ACTIVATED
        THEN CheckActivated(prev_event, curr_event, event_output)
        ELSE IF curr_type = DEACTIVATED
        THEN CheckDeactivated(prev_event, curr_event, self_creation_timestamp,
                              event_output, generate_before, lower_bound_date_string)
        ELSE << >>

\* Variant: the call for the pair passes its arguments in the other order.
FakeTimestampCalls_Swapped(prev_event, curr_event, creation_timestamp, generate_before, lower_bound_date_string) ==
    <<[after |-> curr_event.timestamp, before |-> prev_event.timestamp]>>

\* The calls of _get_fake_timestamp one check_transition makes, as (after,
\* before) pairs: always the one for the pair, then the one of the branch
\* taken (creation_timestamp is the field's value before the call).
FakeTimestampCalls(prev_event, curr_event, creation_timestamp, generate_before, lower_bound_date_string) ==
    LET prev_type == prev_event.event_type
        curr_type == curr_event.event_type
        curr == curr_event.timestamp
        self_creation_timestamp == CreationTimestampAfter(curr_event, creation_timestamp)
        Call(after, before) == [after |-> after, before |-> before]
    IN  <<Call(prev_event.timestamp, curr)>>
        \o (IF /\ curr_type = VALIDATED
               /\ prev_type = SENTINEL
               /\ ~(~generate_before /\ StrLess(self_creation_timestamp, lower_bound_date_string))
               /\ ~IsTrue(curr_event.is_active)
            THEN <<Call(self_creation_timestamp, curr)>>
            ELSE IF /\ curr_type = DEACTIVATED
                    /\ prev_type = SENTINEL
                    /\ ~(/\ Truthy(self_creation_timestamp)
                         /\ \/ generate_before
                            \/ ~StrLess(self_creation_timestamp, lower_bound_date_string))
                    /\ generate_before
            THEN <<Call(None, curr)>>
            ELSE << >>)

\* ------------------------------------------------------------------------
\* missing_enrolled

\* Variant: creation_timestamp is kept from the previous object.
InitialCreationTimestamp_Kept(previous) == previous

\* self.creation_timestamp of a newly constructed ValidateEnrollmentForEvents
\* (previous: the field of the object of the previous invocation, if any).
InitialCreationTimestamp(previous) == None

\* The fields and locals missing_enrolled works on, as the loop starts.
ScanStart(creation_timestamp) ==
    [creation_timestamp |-> creation_timestamp,
     validation_found |-> FALSE,
     missing_events |-> << >>,
     all_missing_events |-> << >>,
     calls |-> << >>,
     log |-> << >>]

\* Variant: with require_validation, what is found before any validation is
\* seen is dropped.
LoopBody_SuppressUnvalidated(st, prev_event, event, event_output, require_validation, generate_before, lower_bound_date_string) ==
    LET found == st.validation_found \/ event.event_type = VALIDATED
        missing == CheckTransition(prev_event, event, st.creation_timestamp, event_output,
                                   generate_before, lower_bound_date_string)
    IN  [creation_timestamp |-> CreationTimestampAfter(event, st.creation_timestamp),
         validation_found |-> found,
         missing_events |-> missing,
         all_missing_events |-> IF require_validation /\ ~found
                                THEN st.all_missing_events
                                ELSE st.all_missing_events \o missing,
         calls |-> FakeTimestampCalls(prev_event, event, st.creation_timestamp,
                                      generate_before, lower_bound_date_string),
         log |-> st.log \o CheckTransitionLog(event, st.creation_timestamp)
                        \o (IF require_validation /\ ~found
                            THEN <<"No validation event found">> ELSE << >>)]

\* Variant: what a pair yields is put before what was collected.
LoopBody_Prepend(st, prev_event, event, event_output, require_validation, generate_before, lower_bound_date_string) ==
    LET found == st.validation_found \/ event.event_type = VALIDATED
        missing == CheckTransition(prev_event, event, st.creation_timestamp, event_output,
                                   generate_before, lower_bound_date_string)
    IN  [creation_timestamp |-> CreationTimestampAfter(event, st.creation_timestamp),
         validation_found |-> found,
         missing_events |-> missing,
         all_missing_events |-> missing \o st.all_missing_events,
         calls |-> FakeTimestampCalls(prev_event, event, st.creation_timestamp,
                                      generate_before, lower_bound_date_string),
         log |-> st.log \o CheckTransitionLog(event, st.creation_timestamp)
                        \o (IF require_validation /\ ~found
                            THEN <<"No validation event found">> ELSE << >>)]

\* The body of the loop of missing_enrolled for the pair (prev_event, event).
LoopBody(st, prev_event, event, event_output, require_validation, generate_before, lower_bound_date_string) ==
    LET found == st.validation_found \/ event.event_type = VALIDATED
        missing == CheckTransition(prev_event, event, st.creation_timestamp, event_output,
                                   generate_before, lower_bound_date_string)
    IN  [creation_timestamp |-> CreationTimestampAfter(event, st.creation_timestamp),
         validation_found |-> found,
         missing_events |-> missing,
         all_missing_events |-> st.all_missing_events \o missing,
         calls |-> FakeTimestampCalls(prev_event, event, st.creation_timestamp,
                                      generate_before, lower_bound_date_string),
         log |-> st.log \o CheckTransitionLog(event, st.creation_timestamp)
                        \o (IF require_validation /\ ~found
                            THEN <<"No validation event found">> ELSE << >>)]

\* The loop from index i on.
RECURSIVE ScanFrom(_, _, _, _, _, _, _)
ScanFrom(events, i, st, event_output, require_validation, generate_before, lower_bound_date_string) ==
    IF i >= Len(events) - 1 THEN st
    ELSE ScanFrom(events, i + 1,
                  LoopBody(st, events[i + 2], events[i + 1], event_output, require_validation,
                           generate_before, lower_bound_date_string),
                  event_output, require_validation, generate_before, lower_bound_date_string)

\* reducer: a new ValidateEnrollmentForEvents on the values, and what its
\* missing_enrolled returns.
Reducer(vals, event_output, require_validation, generate_before, lower_bound_date_string) ==
    ScanFrom(SortedEvents(vals), 0, ScanStart(InitialCreationTimestamp(None)),
             event_output, require_validation, generate_before,
             lower_bound_date_string).all_missing_events

\* ------------------------------------------------------------------------
\* mapper

\* A log line, by what the mapper reads of it: whether it parses, its time
\* field, its event_type, whether its event data can be read, and the
\* course_id, user_id, is_active and created of the event data.
NoTime == [present |-> FALSE, wellformed |-> FALSE, timestamp |-> None]
Time(timestamp, wellformed) ==
    [present |-> TRUE, wellformed |-> wellformed, timestamp |-> timestamp]

\* eventlog.parse_json_event: the event, or None for a line that does not parse.
ParseJsonEvent(line) == IF line.parseable THEN <<line>> ELSE << >>

\* eventlog.get_event_time_string: the timestamp of a well-formed time
\* field, without its timezone; None otherwise.
GetEventTimeString(e) ==
    IF e.time.present /\ e.time.wellformed THEN e.time.timestamp ELSE None

\* eventlog.get_event_data: the event data, or None when it cannot be read.
GetEventData(e) == IF e.event_data THEN <<e>> ELSE << >>

\* opaque_key_util.is_valid_course_id
IsValidCourseId(course_id) == course_id = "valid"

\* Variant: the upper bound's date is within the window.
GetEventAndDateString_ClosedWindow(line, lower_bound_date_string, upper_bound_date_string) ==
    LET parsed == ParseJsonEvent(line)
    IN  IF parsed = << >> THEN << >>
        ELSE IF ~parsed[1].time.present THEN << >>
        ELSE LET date_string == DateString(parsed[1].time.timestamp.day)
             IN  IF \/ StrLess(date_string, lower_bound_date_string)
                    \/ StrLess(upper_bound_date_string, date_string)
                 THEN << >>
                 ELSE <<[event |-> parsed[1], date_string |-> date_string]>>

\* get_event_and_date_string: the event and its date string, or None.
GetEventAndDateString(line, lower_bound_date_string, upper_bound_date_string) ==
    LET parsed == ParseJsonEvent(line)
    IN  IF parsed = << >> THEN << >>
        ELSE IF ~parsed[1].time.present THEN << >>
        ELSE LET date_string == DateString(parsed[1].time.timestamp.day)
             IN  IF \/ StrLess(date_string, lower_bound_date_string)
                    \/ ~StrLess(date_string, upper_bound_date_string)
                 THEN << >>
                 ELSE <<[event |-> parsed[1], date_string |-> date_string]>>

\* Variant: a line without user_id is not dropped.
MapperOutcome_AnyUserId(line, lower_bound_date_string, upper_bound_date_string) ==
    LET value == GetEventAndDateString(line, lower_bound_date_string, upper_bound_date_string)
    IN  IF value = << >> THEN "no value"
        ELSE IF line.event_type = "None" THEN "no event_type"
        ELSE IF line.event_type \notin {DEACTIVATED, ACTIVATED, VALIDATED} THEN "other event_type"
        ELSE IF GetEventTimeString(line) = None THEN "bad timestamp"
        ELSE IF GetEventData(line) = << >> THEN "no event data"
        ELSE IF line.course_id = "None" \/ ~IsValidCourseId(line.course_id) THEN "invalid course_id"
        ELSE "yield"

\* The step of the mapper a line is dropped at, or "yield".
MapperOutcome(line, lower_bound_date_string, upper_bound_date_string) ==
    LET value == GetEventAndDateString(line, lower_bound_date_string, upper_bound_date_string)
    IN  IF value = << >> THEN "no value"
        ELSE IF line.event_type = "None" THEN "no event_type"
        ELSE IF line.event_type \notin {DEACTIVATED, ACTIVATED, VALIDATED} THEN "other event_type"
        ELSE IF GetEventTimeString(line) = None THEN "bad timestamp"
        ELSE IF GetEventData(line) = << >> THEN "no event data"
        ELSE IF line.course_id = "None" \/ ~IsValidCourseId(line.course_id) THEN "invalid course_id"
        ELSE IF line.user_id = "None" THEN "no user_id"
        ELSE "yield"

\* mapper: the records yielded for the line.
Mapper(line, lower_bound_date_string, upper_bound_date_string) ==
    IF MapperOutcome(line, lower_bound_date_string, upper_bound_date_string) = "yield"
    THEN <<[key |-> <<line.course_id, line.user_id>>,
            value |-> EnrollmentEvent(GetEventTimeString(line), line.event_type,
                                      line.is_active, line.created)]>>
    ELSE << >>

\* What the mapper logs for the line.
MapperLog(line, lower_bound_date_string, upper_bound_date_string) ==
    LET outcome == MapperOutcome(line, lower_bound_date_string, upper_bound_date_string)
    IN  IF outcome = "no event_type" THEN <<"encountered event with no event_type">>
        ELSE IF outcome = "bad timestamp" THEN <<"encountered event with bad timestamp">>
        ELSE IF outcome = "invalid course_id"
        THEN <<"encountered explicit enrollment event with invalid course_id">>
        ELSE IF outcome = "no user_id"
        THEN <<"encountered explicit enrollment event with no user_id">>
        ELSE << >>

\* ------------------------------------------------------------------------
\* The reducer's state for one key.
VARIABLES
    event_output, require_validation, generate_before, lower_bound_date_string,
    upper_bound_date_string,
    line,                   \* the line the mapper is called with
    mapped,                 \* what the mapper yielded for it
    values,                 \* the values the reducer is called with
    returned,               \* what the invocations of the reducer returned so far
    sorted_events,          \* self.sorted_events, sentinel last
    creation_timestamp,     \* self.creation_timestamp
    pc,                     \* "loop": in missing_enrolled's loop; "done": returned
    index,                  \* the next loop index
    event, prev_event,      \* the pair of the last iteration
    missing_events,         \* what check_transition returned in the last iteration
    calls,                  \* the _get_fake_timestamp calls of the last iteration
    validation_found,
    all_missing_events,
    log,                    \* the log.error calls so far
    add_call                \* a direct call of _add_microseconds: arguments and result

vars == <<event_output, require_validation, generate_before, lower_bound_date_string,
          upper_bound_date_string, line, mapped, values, returned, sorted_events, creation_timestamp, pc, index, event, prev_event,
          missing_events, calls, validation_found, all_missing_events, log, add_call>>

options == <<event_output, require_validation, generate_before, lower_bound_date_string>>

mapper_vars == <<upper_bound_date_string, line, mapped>>

\* No line given to the mapper.
NoLine ==
    [parseable |-> FALSE, time |-> NoTime, event_type |-> "None", event_data |-> FALSE,
     course_id |-> "None", user_id |-> "None", is_active |-> "None", created |-> None]

\* The end of the interval, after every lower bound and event of the model.
UpperBound == DateString(3)

\* A local the loop has not assigned yet.
Unbound == EnrollmentEvent(None, "unbound", "None", None)

\* No direct call of _add_microseconds.
NoAddCall == [timestamp |-> None, microseconds |-> 0, result |-> None]

\* Inputs of the model: the reducer's values for one key.
MaxEvents == 3
EventTimes == {Ts(2, 0, 0), Ts(2, 0, 1), Ts(2, 0, 999999), Ts(2, 1, 1)}
Createds == {Ts(1, 86399, 999999)}
LowerBounds == {DateString(1), DateString(2)}

InputEvents ==
    {EnrollmentEvent(t, type, "None", None) : t \in EventTimes, type \in {ACTIVATED, DEACTIVATED}}
    \cup {EnrollmentEvent(t, VALIDATED, a, c) :
              t \in EventTimes, a \in {"True", "False"}, c \in Createds}

InputLists == UNION {[1..n -> InputEvents] : n \in 0..MaxEvents}

\* The state as missing_enrolled starts on a newly constructed object.
Constructed ==
    /\ sorted_events = SortedEvents(values)
    /\ creation_timestamp = InitialCreationTimestamp(None)
    /\ pc = "loop"
    /\ index = 0
    /\ event = Unbound
    /\ prev_event = Unbound
    /\ missing_events = << >>
    /\ calls = << >>
    /\ validation_found = FALSE
    /\ all_missing_events = << >>
    /\ log = << >>
    /\ returned = << >>
    /\ add_call = NoAddCall
    /\ upper_bound_date_string = UpperBound
    /\ line = NoLine
    /\ mapped = << >>

\* ValidateEnrollmentForEvents.__init__ on some values and options, and the
\* entry of missing_enrolled.  The values are taken newest first: the order
\* they arrive in is the subject of InitReducer.
Init ==
    /\ event_output \in BOOLEAN
    /\ require_validation \in BOOLEAN
    /\ generate_before \in BOOLEAN
    /\ lower_bound_date_string \in LowerBounds
    /\ \E events \in InputLists : values = SortedReverse(events)
    /\ Constructed

\* len(self.sorted_events) - 1: the sentinel is not processed as an event.
NumEvents == Len(sorted_events) - 1

\* One iteration of the loop of missing_enrolled.
Iterate ==
    /\ pc = "loop"
    /\ index < NumEvents
    /\ LET e == sorted_events[index + 1]
           p == sorted_events[index + 2]
           st == LoopBody([creation_timestamp |-> creation_timestamp,
                           validation_found |-> validation_found,
                           missing_events |-> missing_events,
                           all_missing_events |-> all_missing_events,
                           calls |-> calls,
                           log |-> log],
                          p, e, event_output, require_validation, generate_before,
                          lower_bound_date_string)
       IN  /\ event' = e
           /\ prev_event' = p
           /\ validation_found' = st.validation_found
           /\ missing_events' = st.missing_events
           /\ all_missing_events' = st.all_missing_events
           /\ calls' = st.calls
           /\ creation_timestamp' = st.creation_timestamp
           /\ log' = st.log
    /\ index' = index + 1
    /\ UNCHANGED <<options, mapper_vars, values, returned, sorted_events, pc, add_call>>

\* The loop is exhausted: return all_missing_events.
Return ==
    /\ pc = "loop"
    /\ index >= NumEvents
    /\ pc' = "done"
    /\ returned' = Append(returned, all_missing_events)
    /\ UNCHANGED <<options, mapper_vars, values, sorted_events, creation_timestamp, index, event, prev_event,
                   missing_events, calls, validation_found, all_missing_events, log, add_call>>

Next == Iterate \/ Return

Spec == Init /\ [][Next]_vars

\* ------------------------------------------------------------------------
\* The reducer invoked on values in any order, and invoked again on the same
\* key and values (the framework re-runs a reducer on retry).
MaxValues == 2
MaxCalls == 2
ReducerTimes == {Ts(2, 0, 1), Ts(2, 0, 999999)}
ReducerCreateds == {Ts(1, 86399, 999999), Ts(2, 0, 5), None}

ReducerEvents ==
    {EnrollmentEvent(t, type, "None", None) : t \in ReducerTimes, type \in {ACTIVATED, DEACTIVATED}}
    \cup {EnrollmentEvent(t, VALIDATED, a, c) :
              t \in ReducerTimes, a \in {"True", "False"}, c \in ReducerCreateds}

ReducerLists == UNION {[1..n -> ReducerEvents] : n \in 0..MaxValues}

InitReducer ==
    /\ event_output \in BOOLEAN
    /\ require_validation \in BOOLEAN
    /\ generate_before \in BOOLEAN
    /\ lower_bound_date_string = DateString(2)
    /\ values \in ReducerLists
    /\ Constructed

\* reducer is called again with the same key and values: a new
\* ValidateEnrollmentForEvents, and missing_enrolled from the start.
Reinvoke ==
    /\ pc = "done"
    /\ Len(returned) < MaxCalls
    /\ sorted_events' = SortedEvents(values)
    /\ creation_timestamp' = InitialCreationTimestamp(creation_timestamp)
    /\ pc' = "loop"
    /\ index' = 0
    /\ event' = Unbound
    /\ prev_event' = Unbound
    /\ missing_events' = << >>
    /\ calls' = << >>
    /\ validation_found' = FALSE
    /\ all_missing_events' = << >>
    /\ UNCHANGED <<options, mapper_vars, values, returned, log, add_call>>

NextReducer == Iterate \/ Return \/ Reinvoke

SpecReducer == InitReducer /\ [][NextReducer]_vars

\* ------------------------------------------------------------------------
\* _add_microseconds called directly on a timestamp with a six-digit or no
\* fractional part.
ArithDays == {1, 2}
ArithSeconds == {0, 1, SecondsPerDay - 2, SecondsPerDay - 1}
ArithFractions == {-1, 0, 1, 123456, MicrosPerSecond - 2, MicrosPerSecond - 1}
ArithTimestamps == {Ts(d, s, f) : d \in ArithDays, s \in ArithSeconds, f \in ArithFractions}

InitArith ==
    /\ event_output = FALSE
    /\ require_validation = FALSE
    /\ generate_before = FALSE
    /\ lower_bound_date_string = DateString(1)
    /\ upper_bound_date_string = UpperBound
    /\ line = NoLine
    /\ mapped = << >>
    /\ values = << >>
    /\ returned = << >>
    /\ sorted_events = SortedEvents(values)
    /\ creation_timestamp = None
    /\ pc = "idle"
    /\ index = 0
    /\ event = Unbound
    /\ prev_event = Unbound
    /\ missing_events = << >>
    /\ calls = << >>
    /\ validation_found = FALSE
    /\ all_missing_events = << >>
    /\ log = << >>
    /\ \E t \in ArithTimestamps, m \in {1, -1} :
          add_call = [timestamp |-> t, microseconds |-> m, result |-> None]

AddMicrosecondsCall ==
    /\ pc = "idle"
    /\ add_call.result = None
    /\ add_call' = [add_call EXCEPT
                       !.result = AddMicroseconds(add_call.timestamp, add_call.microseconds)]
    /\ UNCHANGED <<options, mapper_vars, values, returned, sorted_events, creation_timestamp, pc, index,
                   event, prev_event, missing_events, calls, validation_found,
                   all_missing_events, log>>

NextArith == AddMicrosecondsCall

SpecArith == InitArith /\ [][NextArith]_vars

\* ------------------------------------------------------------------------
\* The reducer on values as the mapper delivers them: is_active and created
\* are those of the event data, None when it has none (as for the validation
\* events of the mapper's tests).
MaxDelivered == 2
DeliveredTimes == {Ts(2, 0, 1), Ts(2, 1, 1)}

DeliveredEvents ==
    {EnrollmentEvent(t, type, "None", None) :
         t \in DeliveredTimes, type \in {ACTIVATED, DEACTIVATED, VALIDATED}}
    \cup {EnrollmentEvent(t, VALIDATED, a, c) :
              t \in DeliveredTimes, a \in {"True", "False"}, c \in Createds}

DeliveredLists == UNION {[1..n -> DeliveredEvents] : n \in 0..MaxDelivered}

InitDelivered ==
    /\ event_output \in BOOLEAN
    /\ require_validation \in BOOLEAN
    /\ generate_before \in BOOLEAN
    /\ lower_bound_date_string \in LowerBounds
    /\ \E events \in DeliveredLists : values = SortedReverse(events)
    /\ Constructed

NextDelivered == Iterate \/ Return

SpecDelivered == InitDelivered /\ [][NextDelivered]_vars

\* ------------------------------------------------------------------------
\* The mapper called on one line.
MapperDays == {0, 1, 2, 3}
MapperTimes ==
    {NoTime} \cup {Time(Ts(d, 0, 1), w) : d \in MapperDays, w \in BOOLEAN}

MapperLines ==
    [parseable : BOOLEAN,
     time : MapperTimes,
     event_type : {"None", "edx.course.enrollment.unknown", DEACTIVATED, ACTIVATED, VALIDATED},
     event_data : BOOLEAN,
     course_id : {"None", "invalid", "valid"},
     user_id : {"None", "21"},
     is_active : {"None", "True"},
     created : {None, Ts(1, 86399, 999999)}]

InitMapper ==
    /\ event_output = FALSE
    /\ require_validation = FALSE
    /\ generate_before = FALSE
    /\ lower_bound_date_string \in LowerBounds
    /\ upper_bound_date_string = UpperBound
    /\ line \in MapperLines
    /\ mapped = << >>
    /\ values = << >>
    /\ returned = << >>
    /\ sorted_events = SortedEvents(values)
    /\ creation_timestamp = None
    /\ pc = "map"
    /\ index = 0
    /\ event = Unbound
    /\ prev_event = Unbound
    /\ missing_events = << >>
    /\ calls = << >>
    /\ validation_found = FALSE
    /\ all_missing_events = << >>
    /\ log = << >>
    /\ add_call = NoAddCall

MapLine ==
    /\ pc = "map"
    /\ mapped' = Mapper(line, lower_bound_date_string, upper_bound_date_string)
    /\ log' = log \o MapperLog(line, lower_bound_date_string, upper_bound_date_string)
    /\ pc' = "mapped"
    /\ UNCHANGED <<options, upper_bound_date_string, line, values, returned, sorted_events,
                   creation_timestamp, index, event, prev_event, missing_events, calls,
                   validation_found, all_missing_events, add_call>>

NextMapper == MapLine

SpecMapper == InitMapper /\ [][NextMapper]_vars

TypeOK ==
    /\ pc \in {"loop", "done", "idle", "map", "mapped"}
    /\ index \in 0..NumEvents
    /\ Len(all_missing_events) <= NumEvents + 1

\* ------------------------------------------------------------------------
\* Vocabulary of the properties

\* The timestamp one microsecond after t (t has a six-digit fraction).
OneMicrosecondLater(t) ==
    IF t.frac + 1 < MicrosPerSecond THEN Ts(t.day, t.sec, t.frac + 1)
    ELSE IF t.sec + 1 < SecondsPerDay THEN Ts(t.day, t.sec + 1, 0)
    ELSE Ts(t.day + 1, 0, 0)

\* a and b differ by more than one microsecond.
MoreThanOneApart(a, b) ==
    a # b /\ b # OneMicrosecondLater(a) /\ a # OneMicrosecondLater(b)

\* The indices of the input events in sorted_events (newest first).
InputIndices == 1..NumEvents
ValidatedIndices == {i \in InputIndices : sorted_events[i].event_type = VALIDATED}

\* The chronologically oldest input event, when there is one.
Oldest == sorted_events[NumEvents]

\* The last iteration processed the pair (sentinel, oldest event).
AtSentinelPair == index >= 1 /\ prev_event.event_type = SENTINEL

\* The last iteration processed a pair of two real events.
AtInteriorPair == index >= 1 /\ prev_event.event_type # SENTINEL

\* Enrollment state an event leaves behind / requires before it.
ImpliedActive(e) ==
    e.event_type = ACTIVATED \/ (e.event_type = VALIDATED /\ IsTrue(e.is_active))
RequiredActive(e) ==
    e.event_type = DEACTIVATED \/ (e.event_type = VALIDATED /\ IsTrue(e.is_active))

\* Preconditions of the history properties: generate_before, timestamps more
\* than a microsecond apart, one created value more than a microsecond before
\* every event.
WellSpaced ==
    /\ \A i, j \in InputIndices :
          i # j => MoreThanOneApart(sorted_events[i].timestamp, sorted_events[j].timestamp)
    /\ \A i, j \in ValidatedIndices : sorted_events[i].created = sorted_events[j].created
    /\ \A i \in ValidatedIndices : \A k \in InputIndices :
          /\ StrLess(sorted_events[i].created, sorted_events[k].timestamp)
          /\ MoreThanOneApart(sorted_events[i].created, sorted_events[k].timestamp)

\* The observed Activated/Deactivated events merged with the returned ones.
History ==
    {[source |-> "observed", n |-> i, timestamp |-> sorted_events[i].timestamp,
      event_type |-> sorted_events[i].event_type] :
        i \in {k \in InputIndices : sorted_events[k].event_type \in {ACTIVATED, DEACTIVATED}}}
    \cup
    {[source |-> "synthesized", n |-> i, timestamp |-> all_missing_events[i].timestamp,
      event_type |-> all_missing_events[i].event_type] : i \in DOMAIN all_missing_events}

Before(t) == {h \in History : StrLess(h.timestamp, t)}

\* C1 (gap-free history): with generate_before and well-spaced input, the
\* merged history has pairwise distinct timestamps and, ordered by timestamp,
\* alternates Activated, Deactivated, ... starting with Activated: an event
\* is Activated exactly when an even number of events precede it.
C1_GapFreeHistory ==
    (pc = "done" /\ generate_before /\ WellSpaced) =>
        /\ \A g, h \in History : g.timestamp = h.timestamp => g = h
        /\ \A h \in History :
              (h.event_type = ACTIVATED) <=> (Cardinality(Before(h.timestamp)) % 2 = 0)

C1_Witness ==
    /\ pc = "done" /\ generate_before /\ WellSpaced
    /\ NumEvents = 3
    /\ Len(all_missing_events) >= 3
    /\ \E i \in InputIndices : sorted_events[i].event_type = DEACTIVATED
    /\ \E i \in InputIndices : sorted_events[i].event_type = VALIDATED

\* C2 (validation consistency): under the same preconditions, the state
\* left by the last history event before each Validated event (inactive when
\* there is none) is that event's is_active.
ActiveBefore(t) ==
    \E h \in Before(t) :
        /\ h.event_type = ACTIVATED
        /\ \A g \in Before(t) : ~StrLess(h.timestamp, g.timestamp)

C2_ValidationConsistency ==
    (pc = "done" /\ generate_before /\ WellSpaced) =>
        \A i \in ValidatedIndices :
            ActiveBefore(sorted_events[i].timestamp) <=> IsTrue(sorted_events[i].is_active)

C2_Witness ==
    /\ pc = "done" /\ generate_before /\ WellSpaced
    /\ NumEvents = 3
    /\ all_missing_events # << >>
    /\ \E i, j \in ValidatedIndices :
          IsTrue(sorted_events[i].is_active) /\ ~IsTrue(sorted_events[j].is_active)

\* C3 (no gap): when the oldest event is Activated and every adjacent pair
\* is consistent (the older event leaves the state the newer one requires),
\* nothing is returned, whatever the options.
Consistent ==
    /\ NumEvents >= 1
    /\ Oldest.event_type = ACTIVATED
    /\ \A i \in 1..(NumEvents - 1) :
          ImpliedActive(sorted_events[i + 1]) <=> RequiredActive(sorted_events[i])

C3_NoGap ==
    (pc = "done" /\ Consistent) => all_missing_events = << >>

C3_Witness ==
    /\ pc = "done" /\ Consistent /\ NumEvents = 3
    /\ ~generate_before /\ require_validation
    /\ ValidatedIndices # {}
    /\ all_missing_events = << >>

\* A bound an output leaves unset: None in a tuple, no field in a document.
NoBound(x) == x = None \/ x = Omitted

\* d is before the date string lower bound / within the window.
BeforeWindow(t) == t.day < lower_bound_date_string.day

\* C4 (interior rule table): a pair of two real events yields exactly one
\* event when the state prev leaves differs from the state curr requires, and
\* nothing otherwise; the event is Activated when curr is Deactivated or
\* Validated(active), Deactivated otherwise, one microsecond after prev, with
\* bounds (prev.timestamp, curr.timestamp).
C4_InteriorRuleTable ==
    AtInteriorPair =>
        IF ImpliedActive(prev_event) # RequiredActive(event)
        THEN /\ Len(missing_events) = 1
             /\ missing_events[1].event_type =
                    (IF RequiredActive(event) THEN ACTIVATED ELSE DEACTIVATED)
             /\ missing_events[1].timestamp = OneMicrosecondLater(prev_event.timestamp)
             /\ missing_events[1].after = prev_event.timestamp
             /\ missing_events[1].before = event.timestamp
        ELSE missing_events = << >>

C4_Witness ==
    /\ AtInteriorPair
    /\ Len(missing_events) = 1
    /\ prev_event.event_type = VALIDATED /\ event.event_type = DEACTIVATED
    /\ prev_event.timestamp.frac = MicrosPerSecond - 1
    /\ missing_events[1].timestamp.sec = prev_event.timestamp.sec + 1

\* The suppression case of the sentinel pair of a validation does not apply.
NotSuppressed == generate_before \/ ~BeforeWindow(event.created)

\* C5 (single gap): the oldest event is Validated(active) and the suppression
\* case does not apply: exactly one event, Activated at creation_timestamp,
\* reason "start => validate(active)", bounds (creation_timestamp, the
\* validation's timestamp).
C5_SingleGap ==
    (AtSentinelPair /\ event.event_type = VALIDATED /\ IsTrue(event.is_active) /\ NotSuppressed) =>
        /\ Len(missing_events) = 1
        /\ creation_timestamp = event.created
        /\ missing_events[1].event_type = ACTIVATED
        /\ missing_events[1].timestamp = creation_timestamp
        /\ missing_events[1].reason = "start => validate(active)"
        /\ missing_events[1].after = creation_timestamp
        /\ missing_events[1].before = event.timestamp

C5_Witness ==
    /\ AtSentinelPair /\ event.event_type = VALIDATED /\ IsTrue(event.is_active)
    /\ ~generate_before /\ ~BeforeWindow(event.created)
    /\ NumEvents >= 2
    /\ Len(missing_events) = 1

\* C6 (double gap): the oldest event is Validated(inactive) and the
\* suppression case does not apply: exactly two events, Activated at
\* creation_timestamp then Deactivated one microsecond later, both with reason
\* "start => validate(inactive)" and bounds (creation_timestamp, the
\* validation's timestamp).
C6_DoubleGap ==
    (AtSentinelPair /\ event.event_type = VALIDATED /\ ~IsTrue(event.is_active) /\ NotSuppressed) =>
        /\ Len(missing_events) = 2
        /\ creation_timestamp = event.created
        /\ missing_events[1].event_type = ACTIVATED
        /\ missing_events[1].timestamp = creation_timestamp
        /\ missing_events[2].event_type = DEACTIVATED
        /\ missing_events[2].timestamp = OneMicrosecondLater(creation_timestamp)
        /\ \A i \in 1..2 :
              /\ missing_events[i].reason = "start => validate(inactive)"
              /\ missing_events[i].after = creation_timestamp
              /\ missing_events[i].before = event.timestamp

C6_Witness ==
    /\ AtSentinelPair /\ event.event_type = VALIDATED /\ ~IsTrue(event.is_active)
    /\ NotSuppressed
    /\ Len(missing_events) = 2
    /\ missing_events[2].timestamp.day = missing_events[1].timestamp.day + 1

\* C7 (out-of-window suppression): the oldest event is Validated,
\* generate_before is disabled and created is before the lower bound: the
\* sentinel pair yields nothing, whatever is_active.
C7_Suppression ==
    (AtSentinelPair /\ event.event_type = VALIDATED
        /\ ~generate_before /\ BeforeWindow(event.created)) =>
        missing_events = << >>

C7_Witness ==
    /\ AtSentinelPair /\ event.event_type = VALIDATED /\ ~IsTrue(event.is_active)
    /\ ~generate_before /\ BeforeWindow(event.created)
    /\ missing_events = << >>

\* C8: the oldest event is Deactivated, creation_timestamp is known from a
\* later validation, and generate_before is enabled or creation_timestamp is
\* not before the lower bound: exactly one Activated event at
\* creation_timestamp with bounds (creation_timestamp, the Deactivated
\* event's timestamp).
C8_DeactivatedKnownCreation ==
    (AtSentinelPair /\ event.event_type = DEACTIVATED /\ creation_timestamp # None
        /\ (generate_before \/ ~BeforeWindow(creation_timestamp))) =>
        /\ Len(missing_events) = 1
        /\ missing_events[1].event_type = ACTIVATED
        /\ missing_events[1].timestamp = creation_timestamp
        /\ missing_events[1].after = creation_timestamp
        /\ missing_events[1].before = event.timestamp

C8_Witness ==
    /\ AtSentinelPair /\ event.event_type = DEACTIVATED /\ creation_timestamp # None
    /\ ~generate_before /\ ~BeforeWindow(creation_timestamp)
    /\ Len(missing_events) = 1

\* What C9 expects of the sentinel pair: one Activated event a microsecond
\* before the Deactivated event, with no after bound.
JustBeforeDeactivated ==
    /\ Len(missing_events) = 1
    /\ missing_events[1].event_type = ACTIVATED
    /\ OneMicrosecondLater(missing_events[1].timestamp) = event.timestamp
    /\ NoBound(missing_events[1].after)
    /\ missing_events[1].before = event.timestamp

\* C9 as stated: the oldest event is Deactivated, generate_before is enabled
\* and creation_timestamp is unknown or before the lower bound: one Activated
\* event a microsecond before the Deactivated event, no after bound.
C9_AsStated ==
    (AtSentinelPair /\ event.event_type = DEACTIVATED /\ generate_before
        /\ (creation_timestamp = None \/ BeforeWindow(creation_timestamp))) =>
        JustBeforeDeactivated

\* C9 as amended: the oldest event is Deactivated, generate_before is enabled
\* and creation_timestamp is unknown (no validation in the input): one
\* Activated event a microsecond before the Deactivated event, no after bound.
C9_DeactivatedUnknownCreation ==
    (AtSentinelPair /\ event.event_type = DEACTIVATED /\ generate_before
        /\ creation_timestamp = None) =>
        JustBeforeDeactivated

C9_Witness ==
    /\ AtSentinelPair /\ event.event_type = DEACTIVATED /\ generate_before
    /\ creation_timestamp = None
    /\ NumEvents >= 2
    /\ Len(missing_events) = 1
    /\ missing_events[1].timestamp.day = event.timestamp.day - 1

\* C10: the oldest event is Deactivated and generate_before is disabled: the
\* sentinel pair yields nothing when creation_timestamp is unknown or before
\* the lower bound.
C10_DeactivatedNothing ==
    (AtSentinelPair /\ event.event_type = DEACTIVATED /\ ~generate_before
        /\ (creation_timestamp = None \/ BeforeWindow(creation_timestamp))) =>
        missing_events = << >>

C10_Witness ==
    /\ AtSentinelPair /\ event.event_type = DEACTIVATED /\ ~generate_before
    /\ creation_timestamp # None /\ BeforeWindow(creation_timestamp)
    /\ missing_events = << >>

\* The last iteration processed two adjacent events of the same kind,
\* Activated or Deactivated, the older one strictly earlier.
AdjacentDuplicates ==
    /\ AtInteriorPair
    /\ event.event_type \in {ACTIVATED, DEACTIVATED}
    /\ prev_event.event_type = event.event_type
    /\ StrLess(prev_event.timestamp, event.timestamp)

Opposite(event_type) == IF event_type = ACTIVATED THEN DEACTIVATED ELSE ACTIVATED

\* One event of the opposite kind, strictly between the two events.
OneOppositeBetween ==
    /\ Len(missing_events) = 1
    /\ missing_events[1].event_type = Opposite(event.event_type)
    /\ StrLess(prev_event.timestamp, missing_events[1].timestamp)
    /\ StrLess(missing_events[1].timestamp, event.timestamp)

\* C11 as stated (adjacent-duplicate repair): two adjacent events of the same
\* kind at t0 < t1 yield exactly one event of the opposite kind, strictly
\* after t0 and strictly before t1.
C11_AsStated == AdjacentDuplicates => OneOppositeBetween

\* C11 as amended: the same, for t1 more than one microsecond after t0.
C11_AdjacentDuplicateRepair ==
    (AdjacentDuplicates /\ MoreThanOneApart(prev_event.timestamp, event.timestamp)) =>
        OneOppositeBetween

C11_Witness ==
    /\ AdjacentDuplicates /\ MoreThanOneApart(prev_event.timestamp, event.timestamp)
    /\ event.event_type = DEACTIVATED
    /\ OneOppositeBetween
    /\ missing_events[1].timestamp = OneMicrosecondLater(prev_event.timestamp)

\* The lists with the same elements as s, each as many times.
Count(s, x) == Cardinality({i \in DOMAIN s : s[i] = x})
Shuffles(s) ==
    {t \in [DOMAIN s -> {s[i] : i \in DOMAIN s}] :
        \A i \in DOMAIN s : Count(t, s[i]) = Count(s, s[i])}

\* C12 (order invariance): what the reducer returned for the values is what
\* it returns for every permutation of the values, under the same options
\* (same events, same order).
C12_OrderInvariance ==
    (pc = "done") =>
        \A shuffled \in Shuffles(values) :
            Reducer(shuffled, event_output, require_validation, generate_before,
                    lower_bound_date_string) = all_missing_events

C12_Witness ==
    /\ pc = "done"
    /\ Len(values) = MaxValues
    /\ values # SortedReverse(values)
    /\ values[1].timestamp = values[2].timestamp
    /\ all_missing_events # << >>
    /\ Cardinality(Shuffles(values)) >= 2

\* missing_enrolled is about to start on a newly constructed object.
AtEntry == pc = "loop" /\ index = 0

\* C13 (idempotence): the invocations of the reducer on the same key, values
\* and options returned identical lists, and every invocation starts from the
\* same state: creation_timestamp unset, nothing found, nothing collected.
C13_Idempotent ==
    /\ \A i, j \in DOMAIN returned : returned[i] = returned[j]
    /\ AtEntry =>
          /\ creation_timestamp = None
          /\ validation_found = FALSE
          /\ all_missing_events = << >>
          /\ sorted_events = SortedEvents(values)

C13_Witness ==
    /\ Len(returned) = 2
    /\ returned[2] # << >>
    /\ returned[1] = returned[2]
    /\ creation_timestamp # None
    /\ pc = "done"

\* The timestamp with its fraction written out (none is .000000).
Padded(t) == Ts(t.day, t.sec, IF t.frac < 0 THEN 0 ELSE t.frac)

\* C14 (offset with carry): _add_microseconds(t, +1) is the timestamp one
\* microsecond after t and _add_microseconds(t, -1) the one one microsecond
\* before t, with a six-digit fraction; 999999 plus 1 is 000000 of the next
\* second, 000000 minus 1 is 999999 of the previous second, and the result
\* compares on the correct side of t.
C14_OffsetWithCarry ==
    LET t == add_call.timestamp
        r == add_call.result
    IN  (pc = "idle" /\ r # None) =>
            /\ r.frac \in 0..(MicrosPerSecond - 1)
            /\ r.sec \in 0..(SecondsPerDay - 1)
            /\ add_call.microseconds = 1 =>
                  /\ r = OneMicrosecondLater(Padded(t))
                  /\ StrLess(t, r)
                  /\ t.frac = MicrosPerSecond - 1 =>
                        /\ r.frac = 0
                        /\ \/ r.day = t.day /\ r.sec = t.sec + 1
                           \/ r.day = t.day + 1 /\ r.sec = 0 /\ t.sec = SecondsPerDay - 1
            /\ add_call.microseconds = -1 =>
                  /\ OneMicrosecondLater(r) = Padded(t)
                  /\ StrLess(r, t)
                  /\ Padded(t).frac = 0 =>
                        /\ r.frac = MicrosPerSecond - 1
                        /\ \/ r.day = t.day /\ r.sec = t.sec - 1
                           \/ r.day = t.day - 1 /\ r.sec = SecondsPerDay - 1 /\ t.sec = 0

C14_Witness ==
    /\ pc = "idle"
    /\ add_call.microseconds = 1
    /\ add_call.timestamp = Ts(1, SecondsPerDay - 1, MicrosPerSecond - 1)
    /\ add_call.result = Ts(2, 0, 0)

\* C15 as stated: on every call of _get_fake_timestamp exactly one of after
\* and before is non-null.
C15_AsStated ==
    \A i \in DOMAIN calls : (calls[i].after # None) # (calls[i].before # None)

\* C15 as amended: on every call of _get_fake_timestamp before is non-null;
\* after is null only on calls made for the sentinel pair.
C15_BeforeAlwaysKnown ==
    \A i \in DOMAIN calls :
        /\ calls[i].before # None
        /\ calls[i].after = None => AtSentinelPair

C15_Witness ==
    /\ AtSentinelPair
    /\ index >= 2
    /\ Len(calls) = 2
    /\ calls[1].after = None /\ calls[1].before = event.timestamp
    /\ calls[2].after = creation_timestamp /\ calls[2].after # None
    /\ calls[2].before = event.timestamp

\* The timestamps of the real events are pairwise distinct / pairwise more
\* than one microsecond apart.
DistinctTimestamps ==
    \A i, j \in InputIndices :
        i # j => sorted_events[i].timestamp # sorted_events[j].timestamp
SpacedTimestamps ==
    \A i, j \in InputIndices :
        i # j => MoreThanOneApart(sorted_events[i].timestamp, sorted_events[j].timestamp)

\* No event returned for the last pair has the timestamp of a real event.
NoCollision ==
    \A k \in DOMAIN missing_events : \A i \in InputIndices :
        missing_events[k].timestamp # sorted_events[i].timestamp

\* C16 as stated (no collision): when the timestamps of the real events are
\* all distinct, no event synthesized between two real events has the
\* timestamp of a real event.
C16_AsStated == (AtInteriorPair /\ DistinctTimestamps) => NoCollision

\* C16 as amended: the same, when the timestamps of the real events are
\* pairwise more than one microsecond apart.
C16_NoCollision == (AtInteriorPair /\ SpacedTimestamps) => NoCollision

C16_Witness ==
    /\ AtInteriorPair /\ SpacedTimestamps
    /\ NumEvents = 3
    /\ index = 2
    /\ Len(all_missing_events) = 2
    /\ Len(missing_events) = 1
    /\ NoCollision

\* The returned event lies within the bounds it carries.
Bracketed(m) ==
    /\ (~NoBound(m.after) /\ ~NoBound(m.before)) =>
          ~StrLess(m.timestamp, m.after) /\ ~StrLess(m.before, m.timestamp)
    /\ (NoBound(m.after) /\ ~NoBound(m.before)) => StrLess(m.timestamp, m.before)

\* C17 as stated (bracketing): every synthesized event has after <= timestamp
\* <= before when both bounds are present and timestamp < before when only
\* before is present, for every input, the sentinel-pair events placed at
\* creation_timestamp included.
C17_AsStated ==
    \A k \in DOMAIN all_missing_events : Bracketed(all_missing_events[k])

\* C18 (require_validation never alters output): what the reducer returned
\* is what it returns for the same values and other options with
\* require_validation the other way.
C18_RequireValidationNoEffect ==
    (pc = "done") =>
        Reducer(values, event_output, ~require_validation, generate_before,
                lower_bound_date_string) = all_missing_events

C18_Witness ==
    /\ pc = "done"
    /\ require_validation
    /\ ValidatedIndices = {}
    /\ log # << >>
    /\ Len(all_missing_events) >= 2

\* The missing-validation anomaly was logged during the scan.
ValidationMissingSignalled ==
    \E i \in DOMAIN log : log[i] = "No validation event found"

\* C19 as stated: with require_validation, once the scan of a key (a key has
\* at least one event) is over, the missing-validation anomaly has been
\* signalled if and only if the key has no Validated event.
C19_AsStated ==
    (pc = "done" /\ require_validation /\ NumEvents >= 1) =>
        (ValidationMissingSignalled <=> ValidatedIndices = {})

\* The conflicting-created anomaly was logged during the scan.
ConflictReported ==
    \E i \in DOMAIN log : log[i] = "Encountered validation with different creation timestamp"

\* Two Validated events of the key disagree on created.
CreatedDisagree ==
    \E i, j \in ValidatedIndices : sorted_events[i].created # sorted_events[j].created

\* The chronologically earliest Validated event, when there is one.
EarliestValidated ==
    sorted_events[CHOOSE i \in ValidatedIndices : \A j \in ValidatedIndices : j <= i]

\* C20 as stated (conflicting validation metadata): once the scan is over,
\* the conflicting-created anomaly has been reported if and only if two
\* Validated events of the key disagree on created; every pair was visited,
\* and creation_timestamp, which the events synthesized afterwards use, is
\* the created of the last scanned (chronologically earliest) validation.
C20_AsStated ==
    (pc = "done") =>
        /\ ConflictReported <=> CreatedDisagree
        /\ index = NumEvents
        /\ ValidatedIndices # {} => creation_timestamp = EarliestValidated.created

\* The Validated events scanned so far, and the created of the last of them
\* (unset when there is none).
ScannedValidated == {i \in ValidatedIndices : i <= index}
LastScannedCreated ==
    IF ScannedValidated = {} THEN None
    ELSE sorted_events[CHOOSE i \in ScannedValidated :
                           \A j \in ScannedValidated : j <= i].created

\* C21 (creation_timestamp tracking): at every step of the scan
\* creation_timestamp is the created of the most recently scanned Validated
\* event (unset if none was scanned); an iteration whose newer event is
\* Activated or Deactivated leaves it unchanged; after the scan it is the
\* created of the chronologically earliest Validated event.
C21_CreationTimestampTracking ==
    /\ [](pc \in {"loop", "done"} =>
            /\ creation_timestamp = LastScannedCreated
            /\ (pc = "done" /\ ValidatedIndices # {}) =>
                  index = NumEvents /\ creation_timestamp = EarliestValidated.created)
    /\ [][(pc = "loop" /\ index' = index + 1
             /\ event'.event_type \in {ACTIVATED, DEACTIVATED}) =>
            creation_timestamp' = creation_timestamp]_vars

C21_Witness ==
    /\ pc = "done"
    /\ Cardinality(ValidatedIndices) = 2
    /\ CreatedDisagree
    /\ NumEvents = MaxValues
    /\ creation_timestamp # None
    /\ creation_timestamp = EarliestValidated.created
    /\ creation_timestamp # sorted_events[1].created

\* The document d carries what the tuple t carries: same date key, timestamp,
\* kind and reason, the same bounds where t has them, none where t has None.
SameRecord(t, d) ==
    /\ t.encoding = "tuple" /\ d.encoding = "event"
    /\ d.datestamp = t.datestamp
    /\ d.timestamp = t.timestamp
    /\ d.event_type = t.event_type
    /\ d.reason = t.reason
    /\ d.after = (IF t.after = None THEN Omitted ELSE t.after)
    /\ d.before = (IF t.before = None THEN Omitted ELSE t.before)

InputWithinLowerBound ==
    \A i \in InputIndices : ~StrLess(sorted_events[i].timestamp, lower_bound_date_string)

\* C23: with generate_before disabled and every input event on or after
\* lower_bound_date_string, no returned event has a timestamp before
\* lower_bound_date_string.
C23_NothingBeforeWindow ==
    (~generate_before /\ InputWithinLowerBound) =>
        \A k \in DOMAIN all_missing_events :
            ~StrLess(all_missing_events[k].timestamp, lower_bound_date_string)

C23_Witness ==
    /\ pc = "done"
    /\ ~generate_before /\ InputWithinLowerBound
    /\ NumEvents = 3
    /\ Oldest.event_type = VALIDATED
    /\ \E k \in DOMAIN all_missing_events :
          /\ all_missing_events[k].timestamp = creation_timestamp
          /\ all_missing_events[k].timestamp.day = lower_bound_date_string.day
          /\ all_missing_events[k].timestamp.day < Oldest.timestamp.day

\* The line is malformed: unparseable, without event_type, of another
\* event_type, with a bad (or no) timestamp, with bad event data, with an
\* invalid or no course_id, or without user_id.
Malformed ==
    \/ ~line.parseable
    \/ line.event_type = "None"
    \/ line.event_type \notin {DEACTIVATED, ACTIVATED, VALIDATED}
    \/ ~line.time.present \/ ~line.time.wellformed
    \/ ~line.event_data
    \/ line.course_id \in {"None", "invalid"}
    \/ line.user_id = "None"

\* The date of the line's time field is outside [lower bound, upper bound).
OutsideWindow ==
    /\ line.time.present
    /\ \/ line.time.timestamp.day < lower_bound_date_string.day
       \/ line.time.timestamp.day >= upper_bound_date_string.day

\* The mapper yielded exactly one record for the line, keyed (course_id,
\* user_id), with value (timestamp, event_type, is_active, created).
OneRecord ==
    /\ Len(mapped) = 1
    /\ mapped[1].key = <<line.course_id, line.user_id>>
    /\ mapped[1].value = EnrollmentEvent(line.time.timestamp, line.event_type,
                                         line.is_active, line.created)

UnderWindowOptions(other_generate_before, other_lower_bound) ==
    CheckTransition(prev_event, event, creation_timestamp, event_output,
                    other_generate_before, other_lower_bound)

\* C25 (interior repairs ignore the window options): what a pair of two real
\* events yields is the same for every generate_before and every
\* lower_bound_date_string.
C25_InteriorIgnoresWindow ==
    AtInteriorPair =>
        \A other_generate_before \in BOOLEAN :
            \A other_lower_bound \in LowerBounds \cup {DateString(3)} :
                UnderWindowOptions(other_generate_before, other_lower_bound) = missing_events

\* An interior pair that yields an event although the window options would
\* silence the sentinel pair.
C25_Witness ==
    /\ AtInteriorPair
    /\ index = 2
    /\ event.event_type = VALIDATED
    /\ ~generate_before
    /\ BeforeWindow(creation_timestamp)
    /\ Len(missing_events) = 1
    /\ Len(all_missing_events) = 2

\* How new the scan takes an event to be among events of one timestamp.
TieRank(event_type) ==
    CASE event_type = VALIDATED -> 3
      [] event_type = DEACTIVATED -> 2
      [] event_type = ACTIVATED -> 1

\* C26 (tie-break): among events of one timestamp the scan (newest first)
\* meets the Validated events first, then the Deactivated, then the
\* Activated, the order of the tuples (timestamp, kind, is_active, created);
\* and what the reducer returns is the same for every order of the values.
C26_TieBreak ==
    /\ \A i, j \in InputIndices :
          (i < j /\ sorted_events[i].timestamp = sorted_events[j].timestamp) =>
              /\ TieRank(sorted_events[i].event_type) >= TieRank(sorted_events[j].event_type)
              /\ ~TupleLess(sorted_events[i], sorted_events[j])
    /\ (pc = "done") =>
          \A shuffled \in Shuffles(values) :
              /\ SortedEvents(shuffled) = sorted_events
              /\ Reducer(shuffled, event_output, require_validation, generate_before,
                         lower_bound_date_string) = returned[Len(returned)]

C26_Witness ==
    /\ pc = "done"
    /\ NumEvents = 2
    /\ sorted_events[1].timestamp = sorted_events[2].timestamp
    /\ sorted_events[1].event_type = DEACTIVATED
    /\ sorted_events[2].event_type = ACTIVATED
    /\ values[1] = sorted_events[2]
    /\ returned[1] = << >>

\* C27 (scan order): every iteration checks the pair of the next event,
\* newest first, with the event after it in sorted_events, and appends what
\* the pair yields to the output; the newer element is never the sentinel
\* and the older one is the sentinel in the last pair only; the scan ends
\* after one pair per input event; an empty input gives an empty output.
C27_ScanOrder ==
    /\ [][(pc = "loop" /\ pc' = "loop" /\ index' # 0) =>
            /\ index' = index + 1
            /\ event' = sorted_events[index + 1]
            /\ prev_event' = sorted_events[index + 2]
            /\ all_missing_events' = all_missing_events \o missing_events']_vars
    /\ [](pc \in {"loop", "done"} =>
            /\ NumEvents = Len(values)
            /\ index <= NumEvents
            /\ sorted_events[NumEvents + 1].event_type = SENTINEL
            /\ \A i \in InputIndices : sorted_events[i].event_type # SENTINEL
            /\ index >= 1 =>
                  /\ event.event_type # SENTINEL
                  /\ (prev_event.event_type = SENTINEL) <=> (index = NumEvents)
            /\ pc = "done" => index = NumEvents
            /\ (pc = "done" /\ NumEvents = 0) => all_missing_events = << >>)

C27_Witness ==
    /\ pc = "done"
    /\ NumEvents = 3
    /\ index = 3
    /\ prev_event.event_type = SENTINEL
    /\ Len(missing_events) = 2
    /\ Len(all_missing_events) = 4
    /\ all_missing_events[3] = missing_events[1]
    /\ all_missing_events[4] = missing_events[2]

\* The date is within [lower_bound_date_string, upper_bound_date_string).
WithinWindow(date_string) ==
    /\ ~StrLess(date_string, lower_bound_date_string)
    /\ StrLess(date_string, upper_bound_date_string)

SizeAndKinds ==
    /\ Len(all_missing_events) <= NumEvents + 1
    /\ \A k \in DOMAIN all_missing_events :
          all_missing_events[k].event_type \in {ACTIVATED, DEACTIVATED}

\* C29 as stated (output size): at most n + 1 events for n input events;
\* every pair yields at most one event except the sentinel pair of a
\* Validated event with is_active false, the only pair that can yield two;
\* every event is Activated or Deactivated.
C29_AsStated ==
    /\ SizeAndKinds
    /\ Len(missing_events) <= 2
    /\ Len(missing_events) = 2 =>
          /\ AtSentinelPair
          /\ event.event_type = VALIDATED
          /\ event.is_active = "False"

\* C30 as stated: every returned event has a non-null timestamp, for every
\* input the mapper can deliver, a Validated event without is_active and
\* created scanned with generate_before included.
C30_AsStated ==
    \A k \in DOMAIN all_missing_events : all_missing_events[k].timestamp # None

====
